---- MODULE Spec2Model ----
(***************************************************************************)
(* A model of mjcf/gen.py: build_spirob, the generator of the MJCF of a    *)
(* two-tendon SpiRob from a directory of STL meshes, run from __main__.    *)
(*                                                                         *)
(* File names and mesh names are strings, modelled as sequences of         *)
(* character codes so that sorting, suffix tests and replace(" ", "_")     *)
(* are computed as Python computes them.                                   *)
(*                                                                         *)
(* Lengths are exact integers in units of 1e-7 (raw mesh units for mesh    *)
(* bounds, metres for everything after the division by 5.0); mesh bounds   *)
(* are multiples of 5 units, so that the division is exact.  An emitted    *)
(* position is the number printed by the format ".6f", an integer count    *)
(* of 1e-6 m.                                                              *)
(***************************************************************************)
EXTENDS Integers, Sequences, FiniteSets, TLC

VARIABLES fs, xml_file, pc, run2, exit_code, root, listing, k, link_info,
          i, z_offset, links, warnings

vars == <<fs, xml_file, pc, run2, exit_code, root, listing, k, link_info,
          i, z_offset, links, warnings>>

(***************************************************************************)
(* Bounds of the model.                                                    *)
(***************************************************************************)
\* the largest number of entries (files and directories) of the asset directory
MaxFiles == 3

(***************************************************************************)
(* Program constants.                                                      *)
(***************************************************************************)
LINK_LENGTH_M == 250000
SCALE == 5
HEIGHT_EPS == 10
overlap_distance == 80000
min_spacing == 50000

(***************************************************************************)
(* Strings.                                                                *)
(***************************************************************************)
\* ".stl"
DotStl == <<46, 115, 116, 108>>
\* "_collision"
CollisionSuffix == <<95, 99, 111, 108, 108, 105, 115, 105, 111, 110>>
\* "vis_"
VisPrefix == <<118, 105, 115, 95>>
\* "col_"
ColPrefix == <<99, 111, 108, 95>>

\* Python's order of str: by code point, a proper prefix first
RECURSIVE StrLess(_, _)
StrLess(a, b) ==
    IF a = <<>> THEN b # <<>>
    ELSE IF b = <<>> THEN FALSE
    ELSE IF Head(a) # Head(b) THEN Head(a) < Head(b)
    ELSE StrLess(Tail(a), Tail(b))

\* str.lower() on ASCII
Lower(s) == [j \in DOMAIN s |-> IF s[j] >= 65 /\ s[j] <= 90 THEN s[j] + 32 ELSE s[j]]

\* str.replace(" ", "_")
ReplaceSpaces(s) == [j \in DOMAIN s |-> IF s[j] = 32 THEN 95 ELSE s[j]]

\* the position of the last "." of a name, 0 when there is none
LastDot(name) ==
    LET dots == {j \in DOMAIN name : name[j] = 46}
    IN  IF dots = {} THEN 0 ELSE CHOOSE j \in dots : \A l \in dots : l <= j

\* pathlib: a suffix starts at the last dot, unless that dot is the first or
\* the last character of the name
HasSuffix(name) == LastDot(name) > 1 /\ LastDot(name) < Len(name)

\* PurePath.suffix
Suffix(name) ==
    IF HasSuffix(name) THEN SubSeq(name, LastDot(name), Len(name)) ELSE <<>>

\* PurePath.stem
Stem(name) ==
    IF HasSuffix(name) THEN SubSeq(name, 1, LastDot(name) - 1) ELSE name

\* the match of the pattern "*.stl" by Path.glob (case-sensitive on POSIX)
GlobStl(name) ==
    /\ Len(name) >= Len(DotStl)
    /\ SubSeq(name, Len(name) - Len(DotStl) + 1, Len(name)) = DotStl

\* sorted(): insertion into a sorted list, and the sort of a list
RECURSIVE Insert(_, _)
Insert(x, s) ==
    IF s = <<>> THEN <<x>>
    ELSE IF StrLess(x, Head(s)) THEN <<x>> \o s
    ELSE <<Head(s)>> \o Insert(x, Tail(s))

\* a mutant of sorted: the list is left in the order it came in
sorted_Unsorted(s) == s

RECURSIVE sorted(_)
sorted(s) == IF s = <<>> THEN <<>> ELSE Insert(Head(s), sorted(Tail(s)))

\* the orders in which the operating system may enumerate a set of names
Enumerations(S) ==
    {s \in [1..Cardinality(S) -> S] : \A x \in S : \E j \in DOMAIN s : s[j] = x}

(***************************************************************************)
(* The input: the asset directory.                                         *)
(***************************************************************************)
\* "a b.stl", "a_b.stl", "B.STL" (meshes) and "n.txt"
TopNames ==
    { <<97, 32, 98, 46, 115, 116, 108>>,
      <<97, 95, 98, 46, 115, 116, 108>>,
      <<66, 46, 83, 84, 76>>,
      <<110, 46, 116, 120, 116>> }

\* "p 0.stl", "p_0.stl", "q.stl", "r.stl", "s.STL"
PartP0 == <<112, 32, 48, 46, 115, 116, 108>>
PartP_0 == <<112, 95, 48, 46, 115, 116, 108>>
PartQ == <<113, 46, 115, 116, 108>>
PartR == <<114, 46, 115, 116, 108>>
PartUpper == <<115, 46, 83, 84, 76>>

\* the contents a "<stem>_collision" directory may have
ColContents ==
    { {}, {PartUpper}, {PartP0, PartP_0}, {PartQ, PartP0, PartR} }

\* what trimesh.load_mesh and mesh.bounds give for a mesh file: an exception,
\* or the bounds along z
LoadFails == [ok |-> FALSE, z_min |-> 0, z_max |-> 0]
Bounds(lo, hi) == [ok |-> TRUE, z_min |-> lo, z_max |-> hi]
MeshOutcomes ==
    { LoadFails,
      Bounds(0, 50000000),
      Bounds(50000000, 50000000),
      Bounds(-35, 199965) }

\* a mutant of IsStl: the suffix is compared without lower()
IsStl_CaseSensitive(name) == Suffix(name) = DotStl

\* line 55: f.suffix.lower() != ".stl" skips the entry
IsStl(name) == Lower(Suffix(name)) = DotStl

ColDirName(name) == Stem(name) \o CollisionSuffix

FileSystems ==
    {[exists |-> FALSE, files |-> {}, mesh |-> <<>>, dirs |-> <<>>]} \cup
    UNION {
      UNION {
        { [exists |-> TRUE, files |-> F, mesh |-> m, dirs |-> d] :
            m \in [{f \in F : IsStl(f)} -> MeshOutcomes],
            d \in [D -> ColContents] } :
        D \in {D \in SUBSET {ColDirName(f) : f \in {f \in F : IsStl(f)}} :
                 Cardinality(F) + Cardinality(D) <= MaxFiles} } :
      F \in SUBSET TopNames }

NoFile == [kind |-> "absent"]
StaleFile == [kind |-> "stale"]

NoTree == [model |-> "none", compiler |-> <<>>, default |-> <<>>,
           asset |-> <<>>, worldbody |-> <<>>,
           tendon |-> <<>>, reels |-> <<>>, actuator |-> <<>>]

Init ==
    /\ fs \in FileSystems
    /\ xml_file \in {NoFile, StaleFile}
    /\ pc = "main"
    /\ run2 = FALSE
    /\ exit_code = -1
    /\ root = NoTree
    /\ listing = <<>>
    /\ k = 1
    /\ link_info = <<>>
    /\ i = 0
    /\ z_offset = 0
    /\ links = <<>>
    /\ warnings = <<>>

(***************************************************************************)
(* build_spirob.                                                           *)
(***************************************************************************)
\* uuid.uuid4().hex[:6], two of its values
ModelNames == {"spirob_0a1b2c", "spirob_3d4e5f"}

\* the format ".6f": the nearest multiple of 1e-6, ties to even
Fmt6(x) ==
    LET q == x \div 10
        r == x % 10
    IN  IF r > 5 \/ (r = 5 /\ q % 2 = 1) THEN q + 1 ELSE q

Max(a, b) == IF a >= b THEN a ELSE b

\* the program counter after the listing, or after an iteration of the loop
\* over it, when kk is the index of the next entry
AfterAssetLoop(kk, lst, info) ==
    IF kk <= Len(lst) THEN "assets"
    ELSE IF info # <<>> THEN "chain" ELSE "tendons"

\* lines 42-44: the default class of the visual geoms, which collide with nothing
VisDefault ==
    [class |-> "vis", contype |-> "0", conaffinity |-> "0",
     rgba |-> "1.0 0.41 0.7 1", type |-> "mesh", group |-> "1"]

\* lines 46-49: the default class of the collision geoms
ColDefault ==
    [class |-> "col", contype |-> "1", conaffinity |-> "1",
     density |-> "1000", friction |-> "0.500 0.500",
     rgba |-> "0.5 0.6 0.7 0.5"]

\* lines 33-49: the root element, named after a fresh uuid, and the defaults
Begin ==
    /\ pc = "main"
    /\ \E name \in ModelNames :
         root' = [model |-> name,
                  compiler |-> <<[angle |-> "degree", meshdir |-> ".",
                                  autolimits |-> "true"]>>,
                  default |-> <<VisDefault, ColDefault>>,
                  asset |-> <<>>, worldbody |-> <<>>,
                  tendon |-> <<>>, reels |-> <<>>, actuator |-> <<>>]
    /\ pc' = "listdir"
    /\ UNCHANGED <<fs, xml_file, run2, exit_code, listing, k, link_info,
                   i, z_offset, links, warnings>>

\* line 53: os.listdir raises FileNotFoundError, nothing catches it
ListDirRaises ==
    /\ pc = "listdir"
    /\ ~fs.exists
    /\ exit_code' = 1
    /\ pc' = "exit"
    /\ UNCHANGED <<fs, xml_file, run2, root, listing, k, link_info,
                   i, z_offset, links, warnings>>

\* line 53: sorted(os.listdir(asset_dir)); the directory's entries are its
\* files and its subdirectories, in an order the operating system chooses
ListDir ==
    /\ pc = "listdir"
    /\ fs.exists
    /\ \E order \in Enumerations(fs.files \cup DOMAIN fs.dirs) :
         listing' = sorted(order)
    /\ k' = 1
    /\ pc' = AfterAssetLoop(1, listing', <<>>)
    /\ UNCHANGED <<fs, xml_file, run2, exit_code, root, link_info,
                   i, z_offset, links, warnings>>

\* line 66: the mesh name of a hull part
ColName(part) == ColPrefix \o ReplaceSpaces(Stem(part))

\* a mutant of FallbackColNames: no fallback
FallbackColNames_None(vis_name) == <<>>

\* lines 70-71: without a collision directory the visual mesh collides
FallbackColNames(vis_name) == <<vis_name>>

\* lines 54-72: one iteration of the loop over the listing
AssetStep ==
    /\ pc = "assets"
    /\ k <= Len(listing)
    /\ LET f == listing[k]
           vis_name == VisPrefix \o ReplaceSpaces(Stem(f))
           col_dir == ColDirName(f)
       IN  IF ~IsStl(f)
           THEN UNCHANGED <<root, link_info>>
           ELSE IF col_dir \in DOMAIN fs.dirs
           THEN \E order \in Enumerations({p \in fs.dirs[col_dir] : GlobStl(p)}) :
                  LET parts == sorted(order)
                      col_names == [j \in DOMAIN parts |-> ColName(parts[j])]
                      meshes == [j \in DOMAIN parts |->
                                   [name |-> ColName(parts[j]),
                                    file |-> <<col_dir, parts[j]>>]]
                  IN  /\ root' = [root EXCEPT !.asset =
                                    (@ \o <<[name |-> vis_name, file |-> <<f>>]>>)
                                      \o meshes]
                      /\ link_info' = Append(link_info,
                           [vis_name |-> vis_name, col_names |-> col_names,
                            path |-> f])
           ELSE /\ root' = [root EXCEPT !.asset =
                              Append(@, [name |-> vis_name, file |-> <<f>>])]
                /\ link_info' = Append(link_info,
                     [vis_name |-> vis_name,
                      col_names |-> FallbackColNames(vis_name),
                      path |-> f])
    /\ k' = k + 1
    /\ pc' = AfterAssetLoop(k', listing, link_info')
    /\ UNCHANGED <<fs, xml_file, run2, exit_code, listing,
                   i, z_offset, links, warnings>>

\* a mutant of Estimate: the height is not clamped to min_spacing
Estimate_NoClamp(outcome) ==
    LET height == outcome.z_max - outcome.z_min
    IN  IF outcome.ok /\ height > HEIGHT_EPS
        THEN [current_link_stacking_height |->
                 (height \div SCALE) - overlap_distance,
              mesh_z_min |-> outcome.z_min \div SCALE,
              warned |-> FALSE]
        ELSE [current_link_stacking_height |-> LINK_LENGTH_M,
              mesh_z_min |-> 0,
              warned |-> TRUE]

\* a mutant of Estimate: a loaded mesh is never taken for degenerate
Estimate_NoHeightTest(outcome) ==
    LET height == outcome.z_max - outcome.z_min
    IN  IF outcome.ok
        THEN [current_link_stacking_height |->
                 Max((height \div SCALE) - overlap_distance, min_spacing),
              mesh_z_min |-> outcome.z_min \div SCALE,
              warned |-> FALSE]
        ELSE [current_link_stacking_height |-> LINK_LENGTH_M,
              mesh_z_min |-> 0,
              warned |-> TRUE]

\* lines 80-110: the stacking height and the scaled lower bound of a mesh, and
\* whether a warning is logged
Estimate(outcome) ==
    LET height == outcome.z_max - outcome.z_min
    IN  IF outcome.ok /\ height > HEIGHT_EPS
        THEN [current_link_stacking_height |->
                 Max((height \div SCALE) - overlap_distance, min_spacing),
              mesh_z_min |-> outcome.z_min \div SCALE,
              warned |-> FALSE]
        ELSE [current_link_stacking_height |-> LINK_LENGTH_M,
              mesh_z_min |-> 0,
              warned |-> TRUE]

\* lines 117-137: the body element of link n
Body(n, info, body_z_pos) ==
    [name |-> <<"link", n>>,
     parent |-> IF n = 0 THEN <<"worldbody", 0>> ELSE <<"link", n - 1>>,
     pos |-> Fmt6(body_z_pos),
     inertial |-> [mass |-> "0.03", diaginertia |-> "2e-05 2e-05 2e-05",
                   pos |-> "0 0 0"],
     geoms |-> <<[name |-> <<"g_vis", n, 0>>, mesh |-> info.vis_name,
                  class |-> "vis"]>> \o
               [j \in DOMAIN info.col_names |->
                  [name |-> <<"g_col", n, j - 1>>, mesh |-> info.col_names[j],
                   class |-> "col"]],
     joint |-> [name |-> <<"hinge", n>>, type |-> "hinge", axis |-> "0 1 0",
                stiffness |-> "25.0", damping |-> "0.2", range |-> "-60 60"],
     sites |-> << <<"s", n, "L">>, <<"s", n, "R">> >>,
     site_pos |-> <<"0.01 0.005 0", "-0.01 0.005 0">>]

\* lines 79-144: one iteration of the loop over link_info
ChainStep ==
    /\ pc = "chain"
    /\ i < Len(link_info)
    /\ LET info == link_info[i + 1]
           est == Estimate(fs.mesh[info.path])
           body_z_pos == IF i = 0 THEN 0 - est.mesh_z_min ELSE z_offset
       IN  /\ root' = [root EXCEPT !.worldbody = Append(@, Body(i, info, body_z_pos))]
           /\ warnings' = IF est.warned THEN Append(warnings, info.path)
                          ELSE warnings
           /\ links' = Append(links,
                [body_z_pos |-> body_z_pos,
                 current_link_stacking_height |-> est.current_link_stacking_height,
                 mesh_z_min |-> est.mesh_z_min])
           /\ z_offset' = body_z_pos + est.current_link_stacking_height
    /\ i' = i + 1
    /\ pc' = IF i' < Len(link_info) THEN "chain" ELSE "tendons"
    /\ UNCHANGED <<fs, xml_file, run2, exit_code, listing, k, link_info>>

\* a mutant of Spatial: the sites are numbered from 1
Spatial_FromOne(side, lower, n) ==
    [name |-> <<"t", lower>>, stiffness |-> "2000.0", damping |-> "5.0",
     sites |-> [j \in 1..n |-> <<"s", j, side>>]]

\* lines 149-154: the spatial tendon of a side
Spatial(side, lower, n) ==
    [name |-> <<"t", lower>>, stiffness |-> "2000.0", damping |-> "5.0",
     sites |-> [j \in 1..n |-> <<"s", j - 1, side>>]]

\* lines 147-154
Tendons ==
    /\ pc = "tendons"
    /\ root' = [root EXCEPT !.tendon =
                  <<Spatial("L", "l", Len(link_info)),
                    Spatial("R", "r", Len(link_info))>>]
    /\ pc' = "reels"
    /\ UNCHANGED <<fs, xml_file, run2, exit_code, listing, k, link_info,
                   i, z_offset, links, warnings>>

\* lines 166-172: the motor of a side, geared by the circumference of the spool
Motor(side, lower) ==
    [joint |-> <<"reel", side>>, name |-> <<"servo", lower>>,
     gear |-> "0.07539822368615504",
     ctrllimited |-> "true", ctrlrange |-> "-5.0 5.0",
     forcelimited |-> "true", forcerange |-> "0 3.5"]

\* lines 157-172: the reel body, its two joints and the two motors
Reels ==
    /\ pc = "reels"
    /\ root' = [root EXCEPT
                  !.reels = <<[name |-> "reels", parent |-> <<"worldbody", 0>>,
                               pos |-> "0 0.04 0",
                               inertial |-> [mass |-> "0.02",
                                             diaginertia |-> "1e-05 1e-05 1e-05",
                                             pos |-> "0 0 0"],
                               joints |-> << <<"reel", "L">>, <<"reel", "R">> >>]>>,
                  !.actuator = <<Motor("L", "l"), Motor("R", "r")>>]
    /\ pc' = "write"
    /\ UNCHANGED <<fs, xml_file, run2, exit_code, listing, k, link_info,
                   i, z_offset, links, warnings>>

\* lines 175-177: tree.write, and the normal end of the process
WriteXml ==
    /\ pc = "write"
    /\ xml_file' = [kind |-> "mjcf", tree |-> root]
    /\ exit_code' = 0
    /\ pc' = "exit"
    /\ UNCHANGED <<fs, run2, root, listing, k, link_info,
                   i, z_offset, links, warnings>>

\* lines 179-185: the program is run once more on the unchanged directory
RunAgain ==
    /\ pc = "exit"
    /\ ~run2
    /\ run2' = TRUE
    /\ pc' = "main"
    /\ exit_code' = -1
    /\ root' = NoTree
    /\ listing' = <<>>
    /\ k' = 1
    /\ link_info' = <<>>
    /\ i' = 0
    /\ z_offset' = 0
    /\ links' = <<>>
    /\ warnings' = <<>>
    /\ UNCHANGED <<fs, xml_file>>

Next ==
    \/ Begin
    \/ ListDirRaises
    \/ ListDir
    \/ AssetStep
    \/ ChainStep
    \/ Tendons
    \/ Reels
    \/ WriteXml
    \/ RunAgain

Spec == Init /\ [][Next]_vars
(***************************************************************************)
(* What the claims speak of.                                               *)
(***************************************************************************)
\* the mesh files of the directory: the names ending in ".stl", in any case
MeshFiles ==
    {f \in fs.files :
       /\ Len(f) > Len(DotStl)
       /\ Lower(SubSeq(f, Len(f) - Len(DotStl) + 1, Len(f))) = DotStl}

\* the mesh files in lexicographic order of their names
ExpectedChain ==
    CHOOSE s \in Enumerations(MeshFiles) :
      \A a, b \in DOMAIN s : a < b => StrLess(s[a], s[b])

\* the chain is assembled
ChainDone == pc \in {"tendons", "reels", "write"} \/ (pc = "exit" /\ exit_code = 0)

IsVis(g) == g.class = "vis"
IsCol(g) == g.class = "col"
VisGeoms(b) == SelectSeq(b.geoms, IsVis)
ColGeoms(b) == SelectSeq(b.geoms, IsCol)

\* the asset table holds a mesh of this name read from this file
Registered(name, file) ==
    \E j \in DOMAIN root.asset :
      root.asset[j].name = name /\ root.asset[j].file = file

\* the "<stem>_collision" directory of a mesh file exists
HasColDir(f) == (Stem(f) \o CollisionSuffix) \in DOMAIN fs.dirs

\* the hull parts of a mesh file that has a collision directory
HullParts(f) == {p \in fs.dirs[Stem(f) \o CollisionSuffix] : GlobStl(p)}

\* the mesh of the asset of link n (from 1)
MeshOf(n) == fs.mesh[link_info[n].path]

\* the mesh did not load, or its extent along z is not positive
Degenerate(o) == ~o.ok \/ o.z_max - o.z_min <= 0

\* a model without its name
Structure(t) == [t EXCEPT !.model = "spirob"]

(***************************************************************************)
(* C1: once the chain is assembled it has exactly one body per mesh file   *)
(* of the directory, named link_0 .. link_{N-1}, and the visual geom of    *)
(* link_i names a mesh read from the i-th mesh file in lexicographic       *)
(* order of the file names, whichever meshes loaded and whichever failed.  *)
(***************************************************************************)
C1_ChainFollowsSortedAssets ==
    ChainDone =>
      /\ Len(root.worldbody) = Cardinality(MeshFiles)
      /\ \A n \in DOMAIN root.worldbody :
           LET b == root.worldbody[n]
           IN  /\ b.name = <<"link", n - 1>>
               /\ Len(VisGeoms(b)) = 1
               /\ Registered(VisGeoms(b)[1].mesh, <<ExpectedChain[n]>>)

\* a chain of three links, some with a mesh that loaded and some without
C1_Witness ==
    /\ ChainDone
    /\ Len(root.worldbody) = 3
    /\ \E n, m \in 1..3 : ~MeshOf(n).ok /\ MeshOf(m).ok

(***************************************************************************)
(* C2: the position of link 0 is the negated scaled lower bound of its     *)
(* mesh, and the position of every later link is the position of the link  *)
(* before it plus that link's stacking height.                             *)
(***************************************************************************)
C2_PositionsStackFromOrigin ==
    \A n \in DOMAIN links :
      IF n = 1
      THEN MeshOf(1).ok =>
             /\ links[1].body_z_pos = 0 - (MeshOf(1).z_min \div SCALE)
             /\ root.worldbody[1].pos = Fmt6(0 - (MeshOf(1).z_min \div SCALE))
      ELSE /\ links[n].body_z_pos =
                links[n - 1].body_z_pos + links[n - 1].current_link_stacking_height
           /\ root.worldbody[n].pos = Fmt6(links[n].body_z_pos)

(***************************************************************************)
(* C3: on every path of the estimation the stacking height of a link, by   *)
(* which the running offset advances, is at least the minimum spacing, and *)
(* the positions of the links never decrease along the chain.              *)
(***************************************************************************)
C3_HeightAtLeastMinSpacing ==
    /\ \A n \in DOMAIN links :
         /\ links[n].current_link_stacking_height >= min_spacing
         /\ n > 1 =>
              /\ links[n - 1].body_z_pos <= links[n].body_z_pos
              /\ root.worldbody[n - 1].pos <= root.worldbody[n].pos
    /\ links # <<>> =>
         z_offset - links[Len(links)].body_z_pos >= min_spacing

\* three links: one mesh failed to load, one is flat, one is thinner than
\* the overlap
C3_Witness ==
    /\ Len(links) = 3
    /\ {LoadFails, Bounds(50000000, 50000000), Bounds(-35, 199965)}
         \subseteq {MeshOf(n) : n \in 1..3}

(***************************************************************************)
(* C4: once the tendons are built there are two, t_l and t_r, each with    *)
(* one site reference per link; the k-th reference of side S is s_k_S,     *)
(* and it is a site of link_k.                                             *)
(***************************************************************************)
C4_TendonsFollowChain ==
    (pc \in {"reels", "write"} \/ (pc = "exit" /\ exit_code = 0)) =>
      /\ Len(root.tendon) = 2
      /\ \A t \in 1..2 :
           LET side == <<"L", "R">>[t]
               sp == root.tendon[t]
           IN  /\ sp.name = <<"t", <<"l", "r">>[t]>>
               /\ Len(sp.sites) = Len(root.worldbody)
               /\ \A j \in DOMAIN sp.sites :
                    /\ sp.sites[j] = <<"s", j - 1, side>>
                    /\ root.worldbody[j].name = <<"link", j - 1>>
                    /\ \E s \in DOMAIN root.worldbody[j].sites :
                         root.worldbody[j].sites[s] = sp.sites[j]

\* the tendons of a chain of three links
C4_Witness == pc = "write" /\ Len(root.worldbody) = 3 /\ Len(root.tendon) = 2

(***************************************************************************)
(* C5: when the directory does not exist or holds no mesh file, the        *)
(* program ends with a non-zero exit code and has not written the output   *)
(* file; a written output file holds at least one link.                    *)
(***************************************************************************)
C5_NoOutputOnFatalInput ==
    /\ (pc = "exit" /\ (~fs.exists \/ MeshFiles = {})) =>
         (exit_code # 0 /\ xml_file.kind # "mjcf")
    /\ xml_file.kind = "mjcf" => xml_file.tree.worldbody # <<>>

(***************************************************************************)
(* C6: a link whose mesh does not load, or has no positive extent along    *)
(* z, has a warning logged for it and the default link length as stacking  *)
(* height; the next link sits that length further; the run goes on to      *)
(* emit every asset as a link and to write the model.                      *)
(***************************************************************************)
C6_FallbackOnDegenerateMesh ==
    /\ \A n \in DOMAIN links :
         Degenerate(MeshOf(n)) =>
           /\ \E w \in DOMAIN warnings : warnings[w] = link_info[n].path
           /\ links[n].current_link_stacking_height = LINK_LENGTH_M
           /\ n < Len(links) =>
                /\ links[n + 1].body_z_pos = links[n].body_z_pos + LINK_LENGTH_M
                /\ root.worldbody[n + 1].pos =
                     root.worldbody[n].pos + Fmt6(LINK_LENGTH_M)
    /\ ChainDone => Len(root.worldbody) = Len(link_info)
    /\ (pc = "exit" /\ fs.exists) =>
         (exit_code = 0 /\ xml_file = [kind |-> "mjcf", tree |-> root])

\* a written chain of three links, the first with a degenerate mesh and the
\* second with a good one
C6_Witness ==
    /\ pc = "exit"
    /\ exit_code = 0
    /\ Len(links) = 3
    /\ Degenerate(MeshOf(1))
    /\ ~Degenerate(MeshOf(2))

(***************************************************************************)
(* C7: a link whose mesh file has no "<stem>_collision" directory has      *)
(* exactly one collision geom, and it names the link's own visual mesh;    *)
(* with or without collision directories the chain has one link per mesh   *)
(* file.                                                                   *)
(***************************************************************************)
C7_VisualMeshCollidesWithoutHulls ==
    ChainDone =>
      /\ Len(root.worldbody) = Cardinality(MeshFiles)
      /\ \A n \in DOMAIN root.worldbody :
           ~HasColDir(ExpectedChain[n]) =>
             LET b == root.worldbody[n]
             IN  /\ Len(ColGeoms(b)) = 1
                 /\ ColGeoms(b)[1].mesh = VisGeoms(b)[1].mesh
                 /\ Registered(ColGeoms(b)[1].mesh, <<ExpectedChain[n]>>)

\* a chain with a link that has a collision directory and one that has none
C7_Witness ==
    /\ ChainDone
    /\ \E n, m \in DOMAIN root.worldbody :
         ~HasColDir(ExpectedChain[n]) /\ HasColDir(ExpectedChain[m])

(***************************************************************************)
(* C8: a link whose collision directory holds k hull parts has exactly k   *)
(* collision geoms, no two of them naming the same mesh, beside its one    *)
(* visual geom.                                                            *)
(***************************************************************************)
C8_DistinctHullParts ==
    ChainDone =>
      \A n \in DOMAIN root.worldbody :
        HasColDir(ExpectedChain[n]) =>
          LET cg == ColGeoms(root.worldbody[n])
          IN  /\ Len(cg) = Cardinality(HullParts(ExpectedChain[n]))
              /\ \A a, b \in DOMAIN cg : a # b => cg[a].mesh # cg[b].mesh
              /\ Len(VisGeoms(root.worldbody[n])) = 1

(***************************************************************************)
(* C9: a second run on the unchanged directory builds a model that differs *)
(* from the one the first run wrote in nothing but its name.               *)
(***************************************************************************)
C9_SecondRunSameStructure ==
    (run2 /\ pc = "write") =>
      /\ xml_file.kind = "mjcf"
      /\ Structure(root) = Structure(xml_file.tree)

\* a second run about to write, under another name, a chain of two links
\* one of which has several hull parts
C9_Witness ==
    /\ run2
    /\ pc = "write"
    /\ xml_file.kind = "mjcf"
    /\ root.model # xml_file.tree.model
    /\ Len(root.worldbody) = 2
    /\ \E n \in DOMAIN root.worldbody : Len(ColGeoms(root.worldbody[n])) >= 2

(***************************************************************************)
(* C10: every emitted link has at least one collision geom.                *)
(***************************************************************************)
C10_EveryLinkCollides ==
    \A n \in DOMAIN root.worldbody : ColGeoms(root.worldbody[n]) # <<>>
====
